---- MODULE Spec2Model ----
(***************************************************************************)
(* Field validation of racoon's forms: the text field                      *)
(* (src/forms/fields/input_field.rs) and the file field                    *)
(* (src/forms/fields/file_field.rs).                                       *)
(*                                                                         *)
(* A field handle is a struct whose `result` and `validated` members are   *)
(* Arcs: they are modelled as indices into two heaps (results, flags), so  *)
(* that clone() copies the index and the handles share slot and flag.      *)
(* validate() has a synchronous part (the map removal, the take of the     *)
(* default) and an asynchronous body; value() is asynchronous.  Each call  *)
(* is a record of `calls` holding its captured locals, its position `pc`   *)
(* and, once finished, what it returned.  Steps of different calls         *)
(* interleave at every access to shared state: a load or store of the     *)
(* flag, or a critical section of the slot's mutex.  No guard of the mutex *)
(* is held across an await, so a critical section (lock, the accesses to   *)
(* the slot, the drop of the guard) is one step.                           *)
(***************************************************************************)
EXTENDS Naturals, Sequences, FiniteSets, TLC

VARIABLES
    form_data,  \* FormData: field name -> Vec<String> (a function on the keys present)
    files,      \* Files: field name -> Vec<core FileField>
    fields,     \* the handles (InputField<T> / FileField<T> structs), by handle id
    results,    \* heap of Arc<Mutex<Option<Box<dyn Any>>>>: the slot's content
    flags,      \* heap of Arc<AtomicBool>
    calls       \* every validate()/value() call made so far, by call id

vars == <<form_data, files, fields, results, flags, calls>>

---------------------------------------------------------------------------
(* Bounds of the model *)

\* handles of the field alive or consumed (the original and its clones)
MaxHandles == 2
\* validate()/value() calls made in one run
MaxCalls == 3
\* raw values (strings or file descriptors) under one name
MaxValues == 2
\* the limit given to max_length() when one is configured
MaxLengthChoice == 4

---------------------------------------------------------------------------
(* Rust values *)

\* Option<X>: None is the empty sequence, Some(x) the one-element sequence.
None == <<>>
Some(x) == <<x>>
IsSome(o) == Len(o) > 0
Unwrap(o) == o[1]

\* Box<dyn Any>: the value with its concrete type, which downcast::<T>() compares.
Box(ty, val) == [ty |-> ty, val |-> val]

\* result.downcast::<T>(): Ok(t) exactly when the boxed value's type is T.
Downcast(box, T) == IF box.ty = T THEN Some(box.val) ELSE None

\* Vec::remove(i) and Vec::insert(i, x), 1-based here.
VecRemove(v, i) == [k \in 1..(Len(v) - 1) |-> IF k < i THEN v[k] ELSE v[k + 1]]
VecInsert(v, i, x) ==
    [k \in 1..(Len(v) + 1) |-> IF k < i THEN v[k] ELSE IF k = i THEN x ELSE v[k - 1]]

\* A remove(key) that leaves the entry of key in the map.
MapKept(map, key) == map

\* A remove(key) that empties the map.
MapCleared(map, key) == [k \in {} |-> map[k]]

\* HashMap::remove(key): the removed entry, and the map without it.
MapRemoved(map, key) == IF key \in DOMAIN map THEN Some(map[key]) ELSE None
MapAfterRemove(map, key) == [k \in (DOMAIN map) \ {key} |-> map[k]]

\* The outcome of a call.
Pending == [tag |-> "Pending"]
RetOk == [tag |-> "Ok"]
RetErr(errors) == [tag |-> "Err", errors |-> errors]
RetValue(box) == [tag |-> "Value", value |-> box]
RetPanic(msg) == [tag |-> "Panic", msg |-> msg]

NotValidatedPanic ==
    "This field is not validated. Please call form.validate() method before accessing value."
UnexpectedPanic(struct) ==
    IF struct = "InputField"
    THEN "Unexpected error. Bug in input_field.rs file."
    ELSE "Unexpected error. Bug in file_field.rs file."
UnwrapPanic == "called Option::unwrap() on a None value"

---------------------------------------------------------------------------
(* Text field: input_field.rs *)

TString == "String"
TOptionString == "Option<String>"

\* InputFieldError variants, with their positional payload.
MissingField(a) == [variant |-> "MissingField", args |-> <<a>>]
MaximumLengthExceed(a, b, c) == [variant |-> "MaximumLengthExceed", args |-> <<a, b, c>>]

MissingFieldMessage == "This field is missing."
MaxLengthMessage(max_length) ==
    "Character length exceeds maximum size of " \o ToString(max_length)

\* The error formatters a field is configured with in this model: a
\* fn(InputFieldError, Vec<String>) -> Vec<String> is any function; these are
\* one that replaces the default message, one that adds to it, and one that
\* returns no message.  The custom message reads the payload at the
\* documented positions: (field_name) and (field_name, value, maximum_length).
CustomMessage(error) ==
    IF error.variant = "MissingField"
    THEN "missing " \o error.args[1]
    ELSE "field " \o error.args[1] \o " value " \o error.args[2]
         \o " limit " \o ToString(error.args[3])

ErrorHandlers == {"replace", "augment", "silent"}

error_handler_call(handler, error, defaults) ==
    CASE handler = "replace" -> <<CustomMessage(error)>>
      [] handler = "augment" -> defaults \o <<CustomMessage(error)>>
      [] handler = "silent" -> <<>>

\* impl FromAny for String / Option<String>: the converted value (the
\* Option<Self> the code returns).
FromAny_from_vec(T, values) ==
    IF T = TString
    THEN IF Len(values) > 0 THEN Some(values[1]) ELSE None
    ELSE IF Len(values) > 0 THEN Some(Some(values[1])) ELSE Some(None)

\* validate_input_length: the errors list after the call.
validate_input_length(field_name, values, error_handler, max_length, errors) ==
    IF Len(values) = 0 THEN errors
    ELSE LET value == values[1] IN
         IF IsSome(max_length) /\ Len(value) > Unwrap(max_length)
         THEN LET default_max_length_exceed_messsage ==
                      MaxLengthMessage(Unwrap(max_length))
              IN IF IsSome(error_handler)
                 THEN errors \o error_handler_call(
                          Unwrap(error_handler),
                          MaximumLengthExceed(value, field_name, Unwrap(max_length)),
                          <<default_max_length_exceed_messsage>>)
                 ELSE Append(errors, default_max_length_exceed_messsage)
         ELSE errors

\* InputField::new followed by the builder calls max_length, set_default,
\* handle_error_message (each present or not): the handle.
InputField_new(T, field_name, max_length, default_value, error_handler, cell) ==
    [struct |-> "InputField", T |-> T, field_name |-> field_name,
     max_length |-> max_length, result |-> cell, error_handler |-> error_handler,
     default_value |-> default_value, validated |-> cell, alive |-> TRUE]

\* The slot InputField::new creates: Some(Box::new(None::<String>)).
InputField_new_result == Some(Box(TOptionString, None))

---------------------------------------------------------------------------
(* File field: file_field.rs *)

TUploadedFile == "UploadedFile"
TOptionUploadedFile == "Option<UploadedFile>"
TVecUploadedFile == "Vec<UploadedFile>"
TOptionVecUploadedFile == "Option<Vec<UploadedFile>>"

FileRequiredMessage == "This field is required."

\* UploadedFile::from_core_file_field
from_core_file_field(core_file_field) ==
    [filename |-> core_file_field.name,
     core_file_field |-> core_file_field,
     temp_path |-> core_file_field.temp_path]

\* The loop pushing each handle at the back of owned_files.
RECURSIVE drain_rev_push(_, _, _)
drain_rev_push(files_left, i, owned_files) ==
    IF i = 0 THEN owned_files
    ELSE drain_rev_push(VecRemove(files_left, i), i - 1,
                        Append(owned_files, from_core_file_field(files_left[i])))

\* The loop of the Vec shapes: for i in (0..files.len()).rev() it removes
\* files[i] and inserts its handle at the front of owned_files.
RECURSIVE drain_rev(_, _, _)
drain_rev(files_left, i, owned_files) ==
    IF i = 0 THEN owned_files
    ELSE drain_rev(VecRemove(files_left, i), i - 1,
                   VecInsert(owned_files, 1, from_core_file_field(files_left[i])))

\* impl ToOptionT for UploadedFile, Option<UploadedFile>, Vec<UploadedFile>,
\* Option<Vec<UploadedFile>>: from_vec, the Option<Self> the code returns.
ToOptionT_from_vec(T, fs) ==
    CASE T = TUploadedFile ->
           IF Len(fs) > 0 THEN Some(from_core_file_field(fs[1])) ELSE None
      [] T = TOptionUploadedFile ->
           IF Len(fs) > 0 THEN Some(Some(from_core_file_field(fs[1]))) ELSE Some(None)
      [] T = TVecUploadedFile ->
           IF Len(fs) > 0 THEN Some(drain_rev(fs, Len(fs), <<>>)) ELSE None
      [] T = TOptionVecUploadedFile ->
           IF Len(fs) > 0 THEN Some(Some(drain_rev(fs, Len(fs), <<>>))) ELSE Some(None)

\* ToOptionT::is_optional
is_optional(T) == T \in {TOptionUploadedFile, TOptionVecUploadedFile}

\* The uploaded files a value of shape T holds, in order.
UploadedFilesOf(T, t) ==
    CASE T = TUploadedFile -> <<t>>
      [] T = TOptionUploadedFile -> t
      [] T = TVecUploadedFile -> t
      [] T = TOptionVecUploadedFile -> IF IsSome(t) THEN Unwrap(t) ELSE <<>>

\* The secondary validators a field is configured with in this model: a
\* fn(T) -> Result<T, Vec<String>> is any function; these are one that accepts
\* its input unchanged, the closure of test_post_validate (it rejects unless
\* the first file is named file2.txt), one that rejects with an empty error
\* list, and one that accepts with a transformed value (every file renamed;
\* an absent optional collection becomes the empty collection).
PostValidators == {"accept", "require_file2", "reject_silently", "rename"}

Renamed(file) == [file EXCEPT !.filename = "renamed.txt"]
RenamedAll(fs) == [k \in 1..Len(fs) |-> Renamed(fs[k])]

post_validator_call(post_validator, T, t) ==
    CASE post_validator = "accept" -> [tag |-> "Ok", t |-> t]
      [] post_validator = "require_file2" ->
           IF Len(UploadedFilesOf(T, t)) > 0
              /\ UploadedFilesOf(T, t)[1].filename = "file2.txt"
           THEN [tag |-> "Ok", t |-> t]
           ELSE [tag |-> "Err", errors |-> <<"File name does not equal file2.txt">>]
      [] post_validator = "reject_silently" -> [tag |-> "Err", errors |-> <<>>]
      [] post_validator = "rename" ->
           [tag |-> "Ok",
            t |-> CASE T = TUploadedFile -> Renamed(t)
                    [] T = TOptionUploadedFile -> RenamedAll(t)
                    [] T = TVecUploadedFile -> RenamedAll(t)
                    [] T = TOptionVecUploadedFile ->
                         IF IsSome(t) THEN Some(RenamedAll(Unwrap(t))) ELSE Some(<<>>)]

\* FileField::new followed by post_validate (present or not): the handle.
FileField_new(T, field_name, post_validator, cell) ==
    [struct |-> "FileField", T |-> T, field_name |-> field_name, result |-> cell,
     post_validator |-> post_validator, validated |-> cell, alive |-> TRUE]

\* The slot FileField::new creates: None.
FileField_new_result == None

---------------------------------------------------------------------------
(* The initial states: one field, constructed and configured, and the raw  *)
(* maps of one request.                                                    *)

InputFieldName == "name"
FileFieldName == "file"
OtherName == "other"

TextValues == {"Jo", "Johnny"}
DefaultChoice == "Anonymous"

CoreFile1 == [name |-> "file.txt", temp_path |-> "/tmp/upload-1"]
CoreFile2 == [name |-> "file2.txt", temp_path |-> "/tmp/upload-2"]
CoreFiles == {CoreFile1, CoreFile2}

\* Vec<X> with at most n elements of S.
Vecs(S, n) == UNION {[1..k -> S] : k \in 0..n}

\* An optional X.
Options(S) == {None} \cup {Some(x) : x \in S}

\* The map holding `own` (an Option<Vec>) under `name` and `other` under OtherName.
RawMap(name, own, other) ==
    IF IsSome(own) THEN (name :> Unwrap(own)) @@ (OtherName :> other)
    ELSE (OtherName :> other)

InitInput ==
    \E T \in {TString, TOptionString},
       max_length \in Options({MaxLengthChoice}),
       default_value \in Options({DefaultChoice}),
       error_handler \in Options(ErrorHandlers),
       own \in Options(Vecs(TextValues, MaxValues)) :
        /\ fields = <<InputField_new(T, InputFieldName, max_length, default_value,
                                     error_handler, 1)>>
        /\ results = <<InputField_new_result>>
        /\ flags = <<FALSE>>
        /\ form_data = RawMap(InputFieldName, own, <<"Jo">>)
        /\ files = RawMap(InputFieldName, Some(<<CoreFile1>>), <<CoreFile2>>)
        /\ calls = <<>>

InitFile ==
    \E T \in {TUploadedFile, TOptionUploadedFile, TVecUploadedFile,
              TOptionVecUploadedFile},
       post_validator \in Options(PostValidators),
       own \in Options(Vecs(CoreFiles, MaxValues)) :
        /\ fields = <<FileField_new(T, FileFieldName, post_validator, 1)>>
        /\ results = <<FileField_new_result>>
        /\ flags = <<FALSE>>
        /\ form_data = RawMap(FileFieldName, Some(<<"Jo">>), <<"Johnny">>)
        /\ files = RawMap(FileFieldName, own, <<CoreFile2>>)
        /\ calls = <<>>

Init == InitInput \/ InitFile

---------------------------------------------------------------------------
(* Helpers of the actions *)

CallIds == 1..Len(calls)
HandleIds == 1..Len(fields)

\* The slot `cell` after a critical section that wrote `data` to it.
Written(cell, data) == [results EXCEPT ![cell] = data]

Finished(c, ret) == [calls EXCEPT ![c].pc = "done", ![c].ret = ret]

\* Whether a validate() sharing the flag `cell` has returned Ok so far.
SomeValidateReturnedOk(cell) ==
    \E c \in CallIds : /\ calls[c].op = "validate"
                       /\ calls[c].validated = cell
                       /\ calls[c].ret.tag = "Ok"

\* History kept in the call records, read by the properties only: `removed`
\* (the raw entry a validate() removed), `stored` (its last write to the
\* slot), `writes` (how many writes it made), `verdict` (what the secondary
\* validator returned), `ok_before` (whether a validate() had returned Ok
\* when value() loaded the flag), `writes_seen` (the writes made to the slot
\* when value() took its content).
RECURSIVE WritesUpTo(_, _)
WritesUpTo(cell, n) ==
    IF n = 0 THEN 0
    ELSE WritesUpTo(cell, n - 1)
         + (IF calls[n].op = "validate" /\ calls[n].result = cell
            THEN calls[n].writes ELSE 0)
WritesSoFar(cell) == WritesUpTo(cell, Len(calls))

---------------------------------------------------------------------------
(* clone() / wrap(), both field kinds *)

\* A clone that builds a slot and a flag of its own (a deep copy).
clone_deep(self) ==
    [self EXCEPT !.result = self.result + 1, !.validated = self.validated + 1]

\* impl Clone: every member cloned; the Arcs (result, validated) are shared.
clone(self) == self

\* The heaps hold a cell for every Arc a handle references: a member that
\* is an Arc clone adds none.
HeapWith(heap, from, to) ==
    IF to > Len(heap) THEN Append(heap, heap[from]) ELSE heap

Clone(h) ==
    /\ fields[h].alive
    /\ Len(fields) < MaxHandles
    /\ fields' = Append(fields, clone(fields[h]))
    /\ results' = HeapWith(results, fields[h].result, clone(fields[h]).result)
    /\ flags' = HeapWith(flags, fields[h].validated, clone(fields[h]).validated)
    /\ UNCHANGED <<form_data, files, calls>>

---------------------------------------------------------------------------
(* InputField::validate *)

\* The synchronous part: the entry is removed from form_data, the default is
\* taken out of the handle, the Arcs are cloned into the future.
InputValidate(h) ==
    /\ fields[h].alive
    /\ fields[h].struct = "InputField"
    /\ Len(calls) < MaxCalls
    /\ LET self == fields[h] IN
        /\ form_data' = MapAfterRemove(form_data, self.field_name)
        /\ fields' = [fields EXCEPT ![h].default_value = None]
        /\ calls' = Append(calls,
              [op |-> "validate", struct |-> "InputField", h |-> h, T |-> self.T,
               pc |-> "body", ret |-> Pending,
               field_name |-> self.field_name,
               form_values |-> MapRemoved(form_data, self.field_name),
               max_length |-> self.max_length,
               default_value |-> self.default_value,
               validated |-> self.validated,
               result |-> self.result,
               error_handler |-> self.error_handler,
               removed |-> MapRemoved(form_data, self.field_name),
               stored |-> None, writes |-> 0])
    /\ UNCHANGED <<files, results, flags>>

\* The errors of a body that runs the length check on the values after
\* the default has been substituted.
InputErrors_checks_default(call) ==
    LET is_empty == IF IsSome(call.form_values)
                    THEN Len(Unwrap(call.form_values)) = 0
                    ELSE TRUE
        values == IF ~is_empty THEN Unwrap(call.form_values)
                  ELSE IF IsSome(call.default_value)
                       THEN <<Unwrap(call.default_value)>>
                       ELSE <<>>
        length_errors == validate_input_length(call.field_name, values,
                                               call.error_handler, call.max_length, <<>>)
        optional == call.T = TOptionString
    IN IF ~optional /\ is_empty /\ ~IsSome(call.default_value)
       THEN IF IsSome(call.error_handler)
            THEN length_errors \o error_handler_call(Unwrap(call.error_handler),
                                                     MissingField(call.field_name),
                                                     <<MissingFieldMessage>>)
            ELSE Append(length_errors, MissingFieldMessage)
       ELSE length_errors

\* The errors of the async body (length check, then the missing branch).
InputErrors(call) ==
    LET length_errors ==
            IF IsSome(call.form_values)
            THEN validate_input_length(call.field_name, Unwrap(call.form_values),
                                       call.error_handler, call.max_length, <<>>)
            ELSE <<>>
        is_empty == IF IsSome(call.form_values)
                    THEN Len(Unwrap(call.form_values)) = 0
                    ELSE TRUE
        optional == call.T = TOptionString
    IN IF ~optional /\ is_empty /\ ~IsSome(call.default_value)
       THEN IF IsSome(call.error_handler)
            THEN length_errors \o error_handler_call(Unwrap(call.error_handler),
                                                     MissingField(call.field_name),
                                                     <<MissingFieldMessage>>)
            ELSE Append(length_errors, MissingFieldMessage)
       ELSE length_errors

\* The missing branch without the substitution of the default.
InputFormValues_no_default(call) == call.form_values

\* form_values after the missing branch: the default substituted when the
\* field is not optional, empty and has a default.
InputFormValues(call) ==
    LET is_empty == IF IsSome(call.form_values)
                    THEN Len(Unwrap(call.form_values)) = 0
                    ELSE TRUE
        optional == call.T = TOptionString
    IN IF ~optional /\ is_empty /\ IsSome(call.default_value)
       THEN Some(<<Unwrap(call.default_value)>>)
       ELSE call.form_values

\* The flag store of the success path (line 249).
InputValidatedStore(cell) == [flags EXCEPT ![cell] = TRUE]

\* The body up to its only await: Err(errors), or validated.store(true) and
\* on to result.lock().await.
InputBody(c) ==
    /\ calls[c].op = "validate" /\ calls[c].struct = "InputField"
    /\ calls[c].pc = "body"
    /\ LET errors == InputErrors(calls[c]) IN
        IF Len(errors) > 0
        THEN /\ calls' = Finished(c, RetErr(errors))
             /\ UNCHANGED flags
        ELSE /\ flags' = InputValidatedStore(calls[c].validated)
             /\ calls' = [calls EXCEPT ![c].pc = "lock",
                                       ![c].form_values = InputFormValues(calls[c])]
    /\ UNCHANGED <<form_data, files, fields, results>>

\* The block under the lock: T::from_vec, unwrap (a panic drops the guard),
\* the write; the guard is dropped at the end of the block; Ok(()).
InputWriteBlock(c) ==
    /\ LET call == calls[c]
           value_t == IF IsSome(call.form_values)
                      THEN FromAny_from_vec(call.T, Unwrap(call.form_values))
                      ELSE FromAny_from_vec(call.T, <<>>)
       IN IF IsSome(value_t)
          THEN /\ results' = Written(call.result, Some(Box(call.T, Unwrap(value_t))))
               /\ calls' = [Finished(c, RetOk) EXCEPT
                               ![c].stored = Some(Box(call.T, Unwrap(value_t))),
                               ![c].writes = 1]
          ELSE /\ results' = results
               /\ calls' = Finished(c, RetPanic(UnwrapPanic))
    /\ UNCHANGED <<form_data, files, fields, flags>>

\* result.lock().await and the block under the lock.
InputWrite(c) ==
    /\ calls[c].op = "validate" /\ calls[c].struct = "InputField"
    /\ calls[c].pc = "lock"
    /\ InputWriteBlock(c)

---------------------------------------------------------------------------
(* FileField::validate *)

\* The synchronous part: the entry is removed from files, the Arcs and the
\* validator are cloned into the future.
FileValidate(h) ==
    /\ fields[h].alive
    /\ fields[h].struct = "FileField"
    /\ Len(calls) < MaxCalls
    /\ LET self == fields[h] IN
        /\ files' = MapAfterRemove(files, self.field_name)
        /\ calls' = Append(calls,
              [op |-> "validate", struct |-> "FileField", h |-> h, T |-> self.T,
               pc |-> "body", ret |-> Pending,
               files |-> MapRemoved(files, self.field_name),
               result |-> self.result,
               validated |-> self.validated,
               post_validator |-> self.post_validator,
               errors |-> <<>>,
               validator_runs |-> 0,
               verdict |-> None,
               stored |-> None, writes |-> 0])
    /\ UNCHANGED <<form_data, fields, results, flags>>

\* Lines 247-261 once is_empty and the errors so far are known: the position
\* the body goes to, and what it returns when it returns Err.
FileErrors(T, is_empty, errors) ==
    IF ~is_optional(T) /\ is_empty THEN Append(errors, FileRequiredMessage) ELSE errors

FileAfterCheck(T, is_empty, errors) ==
    IF Len(FileErrors(T, is_empty, errors)) > 0 THEN "done"
    ELSE IF is_optional(T) /\ is_empty /\ IsSome(ToOptionT_from_vec(T, <<>>))
         THEN "lock2"
         ELSE "store"

\* A first block that writes the converted value before it asks the
\* validator.
FileConverted_writes_first(call) ==
    LET t == ToOptionT_from_vec(call.T, Unwrap(call.files)) IN
    IF IsSome(t)
    THEN IF IsSome(call.post_validator)
         THEN LET r == post_validator_call(Unwrap(call.post_validator), call.T,
                                           Unwrap(t))
              IN IF r.tag = "Ok"
                 THEN [write |-> Some(Box(call.T, r.t)), errors |-> <<>>,
                       ran |-> 1, verdict |-> Some(r)]
                 ELSE [write |-> Some(Box(call.T, Unwrap(t))), errors |-> r.errors,
                       ran |-> 1, verdict |-> Some(r)]
         ELSE [write |-> Some(Box(call.T, Unwrap(t))), errors |-> <<>>,
               ran |-> 0, verdict |-> None]
    ELSE [write |-> None, errors |-> <<>>, ran |-> 0, verdict |-> None]

\* Under the first lock (lines 226-242): what is written to the slot (None:
\* nothing), the errors, and what the validator returned if it ran.
FileConverted(call) ==
    LET t == ToOptionT_from_vec(call.T, Unwrap(call.files)) IN
    IF IsSome(t)
    THEN IF IsSome(call.post_validator)
         THEN LET r == post_validator_call(Unwrap(call.post_validator), call.T,
                                           Unwrap(t))
              IN IF r.tag = "Ok"
                 THEN [write |-> Some(Box(call.T, r.t)), errors |-> <<>>,
                       ran |-> 1, verdict |-> Some(r)]
                 ELSE [write |-> None, errors |-> r.errors,
                       ran |-> 1, verdict |-> Some(r)]
         ELSE [write |-> Some(Box(call.T, Unwrap(t))), errors |-> <<>>,
               ran |-> 0, verdict |-> None]
    ELSE [write |-> None, errors |-> <<>>, ran |-> 0, verdict |-> None]

\* With an entry, the block under the first lock, whose guard is dropped at
\* the end of the block (line 243); without one, is_empty = true.  Then the
\* checks of lines 247-253.
FileBodyBlock(c) ==
    /\ LET call == calls[c]
           is_empty == IF IsSome(call.files) THEN Len(Unwrap(call.files)) = 0
                       ELSE TRUE
           conv == IF IsSome(call.files) THEN FileConverted(call)
                   ELSE [write |-> None, errors |-> <<>>, ran |-> 0, verdict |-> None]
           next == FileAfterCheck(call.T, is_empty, conv.errors)
       IN /\ results' = IF IsSome(conv.write) THEN Written(call.result, conv.write)
                        ELSE results
          /\ calls' = [calls EXCEPT
                 ![c].pc = next,
                 ![c].errors = FileErrors(call.T, is_empty, conv.errors),
                 ![c].validator_runs = conv.ran,
                 ![c].verdict = conv.verdict,
                 ![c].stored = conv.write,
                 ![c].writes = IF IsSome(conv.write) THEN 1 ELSE 0,
                 ![c].ret = IF next = "done"
                            THEN RetErr(FileErrors(call.T, is_empty, conv.errors))
                            ELSE Pending]
    /\ UNCHANGED <<form_data, files, fields, flags>>

\* The body up to the checks of lines 247-253: with an entry, the block
\* under result_ref.lock().await; without one, is_empty = true.
FileBody(c) ==
    /\ calls[c].op = "validate" /\ calls[c].struct = "FileField"
    /\ calls[c].pc = "body"
    /\ FileBodyBlock(c)

\* Lines 255-260: the optional and empty case locks again and stores the
\* conversion of the empty list.
FileWriteEmptyBlock(c) ==
    /\ LET call == calls[c]
           t == Unwrap(ToOptionT_from_vec(call.T, <<>>))
       IN /\ results' = Written(call.result, Some(Box(call.T, t)))
          /\ calls' = [calls EXCEPT ![c].pc = "store",
                                    ![c].stored = Some(Box(call.T, t)),
                                    ![c].writes = call.writes + 1]
    /\ UNCHANGED <<form_data, files, fields, flags>>

FileWriteEmpty(c) ==
    /\ calls[c].op = "validate" /\ calls[c].struct = "FileField"
    /\ calls[c].pc = "lock2"
    /\ FileWriteEmptyBlock(c)

\* Line 263-264: validated.store(true); Ok(()).
FileValidatedStore(cell) == [flags EXCEPT ![cell] = TRUE]

FileStore(c) ==
    /\ calls[c].op = "validate" /\ calls[c].struct = "FileField"
    /\ calls[c].pc = "store"
    /\ flags' = FileValidatedStore(calls[c].validated)
    /\ calls' = Finished(c, RetOk)
    /\ UNCHANGED <<form_data, files, fields, results>>

---------------------------------------------------------------------------
(* value(), both field kinds *)

\* value(self): the handle is moved into the call.  The body starts with the
\* load of the flag: false panics, true goes on to result.lock().await.
Value(h) ==
    /\ fields[h].alive
    /\ Len(calls) < MaxCalls
    /\ LET self == fields[h] IN
        /\ fields' = [fields EXCEPT ![h].alive = FALSE]
        /\ calls' = Append(calls,
              [op |-> "value", struct |-> self.struct, h |-> h, T |-> self.T,
               pc |-> IF flags[self.validated] THEN "lock" ELSE "done",
               ret |-> IF flags[self.validated] THEN Pending
                       ELSE RetPanic(NotValidatedPanic),
               result |-> self.result,
               validated |-> self.validated,
               ok_before |-> SomeValidateReturnedOk(self.validated),
               writes_seen |-> 0])
    /\ UNCHANGED <<form_data, files, results, flags>>

\* What value() ends with for the slot content `data`: take(), then the
\* downcast to T.
ValueOutcome(struct, T, data) ==
    IF IsSome(data) /\ IsSome(Downcast(Unwrap(data), T))
    THEN RetValue(Box(T, Unwrap(Downcast(Unwrap(data), T))))
    ELSE RetPanic(UnexpectedPanic(struct))

\* value() reading the slot without taking its content.
ValueTake_peek(c) ==
    /\ calls[c].op = "value"
    /\ calls[c].pc = "lock"
    /\ LET call == calls[c] IN
        /\ results' = results
        /\ calls' = [Finished(c, ValueOutcome(call.struct, call.T,
                                              results[call.result]))
                        EXCEPT ![c].writes_seen = WritesSoFar(call.result)]
    /\ UNCHANGED <<form_data, files, fields, flags>>

\* The block under the lock: result_ref.take() leaves None in the slot; the
\* downcast decides the outcome; the guard is dropped when value() ends.
ValueTakeBlock(c) ==
    /\ LET call == calls[c] IN
        /\ results' = Written(call.result, None)
        /\ calls' = [Finished(c, ValueOutcome(call.struct, call.T,
                                              results[call.result]))
                        EXCEPT ![c].writes_seen = WritesSoFar(call.result)]
    /\ UNCHANGED <<form_data, files, fields, flags>>

\* self.result.lock().await and the block under the lock.
ValueTake(c) ==
    /\ calls[c].op = "value"
    /\ calls[c].pc = "lock"
    /\ ValueTakeBlock(c)

---------------------------------------------------------------------------
(* The specification *)

Next ==
    \/ \E h \in HandleIds : Clone(h)
    \/ \E h \in HandleIds : InputValidate(h)
    \/ \E c \in CallIds : InputBody(c)
    \/ \E c \in CallIds : InputWrite(c)
    \/ \E h \in HandleIds : FileValidate(h)
    \/ \E c \in CallIds : FileBody(c)
    \/ \E c \in CallIds : FileWriteEmpty(c)
    \/ \E c \in CallIds : FileStore(c)
    \/ \E h \in HandleIds : Value(h)
    \/ \E c \in CallIds : ValueTake(c)

Spec == Init /\ [][Next]_vars

\* One handle: the field, in every configuration, is never cloned.  A
\* validate() may still be in flight when the next call is made.
NextOneHandle ==
    \/ \E h \in HandleIds : InputValidate(h)
    \/ \E c \in CallIds : InputBody(c)
    \/ \E c \in CallIds : InputWrite(c)
    \/ \E h \in HandleIds : FileValidate(h)
    \/ \E c \in CallIds : FileBody(c)
    \/ \E c \in CallIds : FileWriteEmpty(c)
    \/ \E c \in CallIds : FileStore(c)
    \/ \E h \in HandleIds : Value(h)
    \/ \E c \in CallIds : ValueTake(c)

SpecOneHandle == Init /\ [][NextOneHandle]_vars

\* Duplicates: the field and its clones, the field configured as the tests
\* of the two files configure theirs: no error formatter and no max length
\* (a text field), no secondary validator or one that accepts (a file
\* field), every shape, with and without a default, at most one raw value.
PlainField ==
    /\ fields[1].struct = "InputField" =>
         /\ fields[1].max_length = None
         /\ fields[1].error_handler = None
         /\ InputFieldName \in DOMAIN form_data =>
                Len(form_data[InputFieldName]) <= 1
    /\ fields[1].struct = "FileField" =>
         /\ fields[1].post_validator \in {None, Some("rename")}
         /\ FileFieldName \in DOMAIN files => Len(files[FileFieldName]) <= 1

InitDuplicates == Init /\ PlainField

SpecDuplicates == InitDuplicates /\ [][Next]_vars

\* Two fields of one form: the field, named "name" or "file", and a second
\* field named "other" whose entry every request holds.  Neither is cloned.
Companions ==
    {InputField_new(TString, OtherName, None, None, None, 2),
     FileField_new(TVecUploadedFile, OtherName, None, 2)}

new_result(self) ==
    IF self.struct = "InputField" THEN InputField_new_result ELSE FileField_new_result

InitTwoFields ==
    \E companion \in Companions :
        /\ \/ \E T \in {TString, TOptionString},
                 max_length \in Options({MaxLengthChoice}),
                 default_value \in Options({DefaultChoice}),
                 own \in Options(Vecs(TextValues, 1)) :
                  /\ fields = <<InputField_new(T, InputFieldName, max_length,
                                               default_value, None, 1), companion>>
                  /\ form_data = RawMap(InputFieldName, own, <<"Jo">>)
                  /\ files = RawMap(InputFieldName, Some(<<CoreFile1>>), <<CoreFile2>>)
           \/ \E T \in {TUploadedFile, TOptionUploadedFile, TVecUploadedFile,
                        TOptionVecUploadedFile},
                 post_validator \in {None, Some("require_file2")},
                 own \in Options(Vecs(CoreFiles, 1)) :
                  /\ fields = <<FileField_new(T, FileFieldName, post_validator, 1),
                                companion>>
                  /\ form_data = RawMap(FileFieldName, Some(<<"Jo">>), <<"Johnny">>)
                  /\ files = RawMap(FileFieldName, own, <<CoreFile2>>)
        /\ results = <<new_result(fields[1]), new_result(fields[2])>>
        /\ flags = <<FALSE, FALSE>>
        /\ calls = <<>>

SpecTwoFields == InitTwoFields /\ [][NextOneHandle]_vars

---------------------------------------------------------------------------
(* Vocabulary of the properties *)

ValidateCalls == {c \in CallIds : calls[c].op = "validate"}
ValueCalls == {c \in CallIds : calls[c].op = "value"}
Done(c) == calls[c].pc = "done"

\* The raw entry a validate() call removed from its map.
RawOf(call) == IF call.struct = "InputField" THEN call.removed ELSE call.files
NoRawInput(call) == ~IsSome(RawOf(call)) \/ Len(Unwrap(RawOf(call))) = 0
HasRawInput(call) == ~NoRawInput(call)
FirstRaw(call) == Unwrap(RawOf(call))[1]

RequiredShape(T) == T \in {TString, TUploadedFile, TVecUploadedFile}
OptionalShape(T) == T \in {TOptionString, TOptionUploadedFile, TOptionVecUploadedFile}

\* The default the handle held when validate() was called.
NoDefault(call) == call.struct = "FileField" \/ ~IsSome(call.default_value)

\* `part` occurs in `list` as a run of consecutive elements.
Contains(list, part) ==
    \E k \in 0..Len(list) :
        /\ k + Len(part) <= Len(list)
        /\ \A i \in 1..Len(part) : list[k + i] = part[i]

\* The missing-field message of a field: the default text, or what the
\* configured formatter makes of it.
MissingMessages(call) ==
    IF call.struct = "FileField" THEN <<FileRequiredMessage>>
    ELSE IF IsSome(call.error_handler)
         THEN error_handler_call(Unwrap(call.error_handler),
                                 MissingField(call.field_name),
                                 <<MissingFieldMessage>>)
         ELSE <<MissingFieldMessage>>

\* value() ended in the not-validated panic.
NotValidatedFailure(c) == Done(c) /\ calls[c].ret = RetPanic(NotValidatedPanic)
Returned(c) == Done(c) /\ calls[c].ret.tag = "Value"

\* A value() call that got past the flag check.
PassedFlagCheck(c) == calls[c].op = "value" /\ ~NotValidatedFailure(c)

\* No value() call has taken the slot's content.
SlotUntaken(cell) ==
    \A v \in ValueCalls :
        \/ calls[v].result # cell
        \/ NotValidatedFailure(v)
        \/ calls[v].pc = "lock"

---------------------------------------------------------------------------
(* C1 *)

MissingRequiredCase(c) ==
    /\ RequiredShape(calls[c].T)
    /\ NoDefault(calls[c])
    /\ NoRawInput(calls[c])

\* C1: for a required shape without a default, validate() on absent (or
\* empty) raw input returns Err with a non-empty list containing the
\* missing-field message; and as long as every validate() of the field was
\* such a call, the flag is false and every value() ends in the
\* not-validated failure.
C1_MissingRequiredIsError ==
    /\ \A c \in ValidateCalls :
         (Done(c) /\ MissingRequiredCase(c)) =>
            /\ calls[c].ret.tag = "Err"
            /\ Len(calls[c].ret.errors) > 0
            /\ Contains(calls[c].ret.errors, MissingMessages(calls[c]))
    /\ (\A c \in ValidateCalls : Done(c) /\ MissingRequiredCase(c)) =>
            /\ \A cell \in 1..Len(flags) : ~flags[cell]
            /\ \A v \in ValueCalls : NotValidatedFailure(v)

---------------------------------------------------------------------------
(* C2 *)

NoInputOptionalCase(c) ==
    /\ OptionalShape(calls[c].T)
    /\ NoRawInput(calls[c])

\* The only value() call so far that got past the flag check.
OnlyReader(v) == \A u \in ValueCalls : PassedFlagCheck(u) => u = v

\* C2: for an optional shape, validate() on absent (or empty) raw input
\* returns Ok, and the value() that follows returns None.
C2_MissingOptionalIsNone ==
    /\ \A c \in ValidateCalls :
         (Done(c) /\ NoInputOptionalCase(c)) => calls[c].ret = RetOk
    /\ (\A c \in ValidateCalls : Done(c) /\ NoInputOptionalCase(c)) =>
         \A v \in ValueCalls :
            (Done(v) /\ calls[v].ok_before /\ OnlyReader(v)) =>
                calls[v].ret = RetValue(Box(calls[v].T, None))

---------------------------------------------------------------------------
(* C3 *)

MaxLengthCase(c) ==
    /\ calls[c].struct = "InputField"
    /\ IsSome(calls[c].max_length)
    /\ HasRawInput(calls[c])
    /\ Len(FirstRaw(calls[c])) > Unwrap(calls[c].max_length)

\* C3: a text field with a max length whose first raw value is longer
\* returns Err with a max-length message (the default text, or the output
\* of the configured formatter) and stores nothing: as long as every
\* validate() of the field was such a call, the flag is false and the slot
\* is as new() left it.
C3_TooLongIsError ==
    /\ \A c \in ValidateCalls :
         (Done(c) /\ MaxLengthCase(c)) =>
            /\ calls[c].ret.tag = "Err"
            /\ \/ Contains(calls[c].ret.errors,
                           <<MaxLengthMessage(Unwrap(calls[c].max_length))>>)
               \/ IsSome(calls[c].error_handler) /\ Len(calls[c].ret.errors) > 0
            /\ calls[c].stored = None
    /\ (\A c \in ValidateCalls : Done(c) /\ MaxLengthCase(c)) =>
            /\ \A cell \in 1..Len(flags) : ~flags[cell]
            /\ \A cell \in 1..Len(results) :
                   fields[1].struct = "InputField" =>
                       results[cell] = InputField_new_result

---------------------------------------------------------------------------
(* C4 *)

\* The only validate() call made so far.
OnlyValidate(c) == ValidateCalls = {c}

\* The value() call v is the read that follows validate() c: c is the only
\* validate() made, v loaded the flag after c returned Ok, and no other
\* value() got past the flag check.
ReadFollowing(c, v) ==
    /\ OnlyValidate(c)
    /\ Done(c) /\ calls[c].ret = RetOk
    /\ Done(v) /\ calls[v].ok_before
    /\ OnlyReader(v)

DefaultCase(c) ==
    /\ calls[c].struct = "InputField"
    /\ calls[c].T = TString
    /\ IsSome(calls[c].default_value)

DefaultExpected(c) ==
    Box(TString, IF NoRawInput(calls[c]) THEN Unwrap(calls[c].default_value)
                                         ELSE FirstRaw(calls[c]))

\* C4: for an InputField<String> holding a default d, validate() without
\* raw input returns Ok, and a validate() that returns Ok leaves d in the
\* slot when there was no raw input and the first raw value when there was
\* one; the value() that follows returns it.
C4_DefaultOrFirstRaw ==
    \A c \in ValidateCalls :
        (Done(c) /\ DefaultCase(c)) =>
            /\ NoRawInput(calls[c]) => calls[c].ret = RetOk
            /\ (calls[c].ret = RetOk /\ OnlyValidate(c)
                   /\ SlotUntaken(calls[c].result)) =>
                   results[calls[c].result] = Some(DefaultExpected(c))
            /\ \A v \in ValueCalls :
                   ReadFollowing(c, v) => calls[v].ret = RetValue(DefaultExpected(c))

\* A value() returned the default after a validate() without raw input.
C4_Witness ==
    \E c \in ValidateCalls, v \in ValueCalls :
        /\ DefaultCase(c) /\ NoRawInput(calls[c])
        /\ ReadFollowing(c, v)
        /\ calls[v].ret = RetValue(Box(TString, DefaultChoice))

---------------------------------------------------------------------------
(* C5 *)

\* C5: a value() call that loads the flag while no validate() of the field
\* has returned Ok ends in the not-validated failure (which touches neither
\* slot nor flag), and never returns a value.
C5_ValueBeforeOkIsNotValidated ==
    \A v \in ValueCalls :
        (Done(v) /\ ~calls[v].ok_before) => NotValidatedFailure(v)

---------------------------------------------------------------------------
(* C6 *)

\* C6: every handle of the field references the slot and the flag of the
\* original; and after a validate() through one handle returned Ok having
\* stored a value, the value() that follows through another handle returns
\* exactly that value.
C6_DuplicatesShareSlotAndFlag ==
    /\ \A h \in HandleIds :
         /\ fields[h].result = fields[1].result
         /\ fields[h].validated = fields[1].validated
    /\ \A c \in ValidateCalls, v \in ValueCalls :
         (ReadFollowing(c, v) /\ calls[v].h # calls[c].h /\ IsSome(calls[c].stored)) =>
            calls[v].ret = RetValue(Unwrap(calls[c].stored))

\* A value() through a duplicate returned what validate() stored through
\* the other handle.
C6_Witness ==
    \E c \in ValidateCalls, v \in ValueCalls :
        /\ ReadFollowing(c, v)
        /\ calls[v].h # calls[c].h
        /\ IsSome(calls[c].stored)
        /\ calls[v].ret = RetValue(Unwrap(calls[c].stored))

---------------------------------------------------------------------------
(* C7 *)

\* C7: after a value() has returned, the slot is empty until a validate()
\* writes it again, and two value() calls never both return unless a
\* validate() wrote the slot between their takes.
C7_DeliveredAtMostOnce ==
    /\ \A v \in ValueCalls :
         Returned(v) =>
            \/ results[calls[v].result] = None
            \/ WritesSoFar(calls[v].result) > calls[v].writes_seen
    /\ \A v1, v2 \in ValueCalls :
         (v1 # v2 /\ Returned(v1) /\ Returned(v2)) =>
            calls[v1].writes_seen # calls[v2].writes_seen

\* A second value() through a duplicate, with no write since the first
\* returned, ended in the fatal failure.
C7_Witness ==
    \E v1, v2 \in ValueCalls :
        /\ Returned(v1)
        /\ calls[v2].h # calls[v1].h
        /\ Done(v2) /\ calls[v2].ret = RetPanic(UnexpectedPanic(calls[v2].struct))
        /\ calls[v2].writes_seen = calls[v1].writes_seen

---------------------------------------------------------------------------
(* C8 *)

FilesCase(c) ==
    /\ calls[c].struct = "FileField"
    /\ HasRawInput(calls[c])
    /\ ~IsSome(calls[c].post_validator)

\* The handle u is the handle of the descriptor d.
HandleOf(u, d) == u.filename = d.name /\ u.temp_path = d.temp_path
HandlesOf(us, ds) ==
    /\ Len(us) = Len(ds)
    /\ \A i \in 1..Len(ds) : HandleOf(us[i], ds[i])

\* The value t of shape T is the conversion of the descriptors ds.
ConversionOf(T, t, ds) ==
    CASE T = TUploadedFile -> HandleOf(t, ds[1])
      [] T = TOptionUploadedFile -> IsSome(t) /\ HandleOf(Unwrap(t), ds[1])
      [] T = TVecUploadedFile -> HandlesOf(t, ds)
      [] T = TOptionVecUploadedFile -> IsSome(t) /\ HandlesOf(Unwrap(t), ds)

\* C8: a file field without a secondary validator fed n >= 1 descriptors
\* returns Ok and stores, for the collection shapes, the n handles in
\* arrival order and, for the single shapes, the handle of the first
\* descriptor; the value() that follows returns it.
C8_FilesConvertedInOrder ==
    \A c \in ValidateCalls :
        (Done(c) /\ FilesCase(c)) =>
            /\ calls[c].ret = RetOk
            /\ IsSome(calls[c].stored)
            /\ Unwrap(calls[c].stored).ty = calls[c].T
            /\ ConversionOf(calls[c].T, Unwrap(calls[c].stored).val,
                            Unwrap(calls[c].files))
            /\ (OnlyValidate(c) /\ SlotUntaken(calls[c].result)) =>
                   results[calls[c].result] = calls[c].stored
            /\ \A v \in ValueCalls :
                   ReadFollowing(c, v) =>
                       calls[v].ret = RetValue(Unwrap(calls[c].stored))

\* A value() returned a collection of two different files in arrival order.
C8_Witness ==
    \E c \in ValidateCalls, v \in ValueCalls :
        /\ FilesCase(c)
        /\ calls[c].T \in {TVecUploadedFile, TOptionVecUploadedFile}
        /\ Len(Unwrap(calls[c].files)) >= 2
        /\ Unwrap(calls[c].files)[1] # Unwrap(calls[c].files)[2]
        /\ ReadFollowing(c, v)
        /\ Returned(v)
        /\ ConversionOf(calls[c].T, calls[v].ret.value.val, Unwrap(calls[c].files))

---------------------------------------------------------------------------
(* C9 *)

ValidatorRejected(c) ==
    /\ calls[c].struct = "FileField"
    /\ IsSome(calls[c].verdict)
    /\ Unwrap(calls[c].verdict).tag = "Err"

\* C9: when the secondary validator of a file field rejects, validate()
\* returns Err carrying the validator's error list and writes nothing to
\* the slot; as long as every validate() of the field was such a call, the
\* flag is false and every value() ends in the not-validated failure.
C9_ValidatorRejectionIsError ==
    /\ \A c \in ValidateCalls :
         (Done(c) /\ ValidatorRejected(c)) =>
            /\ calls[c].ret.tag = "Err"
            /\ Contains(calls[c].ret.errors, Unwrap(calls[c].verdict).errors)
            /\ calls[c].writes = 0
    /\ (\A c \in ValidateCalls : Done(c) /\ ValidatorRejected(c)) =>
            /\ \A cell \in 1..Len(flags) : ~flags[cell]
            /\ \A v \in ValueCalls : NotValidatedFailure(v)

---------------------------------------------------------------------------
(* C10 *)

\* C10: a finished validate() returned Ok or Err with a non-empty list; and
\* once a validate() has returned Ok, the slot holds a value of the shape T
\* until a value() takes it.
C10_OkMeansValueAvailable ==
    /\ \A c \in ValidateCalls :
         Done(c) =>
            \/ calls[c].ret = RetOk
            \/ calls[c].ret.tag = "Err" /\ Len(calls[c].ret.errors) > 0
    /\ \A c \in ValidateCalls :
         (Done(c) /\ calls[c].ret = RetOk /\ SlotUntaken(calls[c].result)) =>
            /\ IsSome(results[calls[c].result])
            /\ Unwrap(results[calls[c].result]).ty = calls[c].T

---------------------------------------------------------------------------
(* C11 *)

\* The raw entry validate() c removed, as the async body first sees it.
AtCall(call) == [call EXCEPT !.form_values = call.removed]

\* The structured failures with the contextual values at the documented
\* positions, and what the configured formatter makes of them.
DocumentedMaxLength(call) ==
    error_handler_call(Unwrap(call.error_handler),
                       MaximumLengthExceed(call.field_name, FirstRaw(call),
                                           Unwrap(call.max_length)),
                       <<MaxLengthMessage(Unwrap(call.max_length))>>)
DocumentedMissing(call) ==
    error_handler_call(Unwrap(call.error_handler),
                       MissingField(call.field_name),
                       <<MissingFieldMessage>>)

\* C11: when a text field with a formatter returns Err, its error list is
\* exactly what the formatter returns for MaximumLengthExceed(field name,
\* offending value, limit) with the default max-length message (a first raw
\* value longer than the limit) or for MissingField(field name) with the
\* default missing message (no raw input).
C11_FormatterGetsDocumentedPayload ==
    \A c \in ValidateCalls :
        (/\ Done(c) /\ calls[c].struct = "InputField"
         /\ IsSome(calls[c].error_handler)
         /\ calls[c].ret.tag = "Err") =>
            calls[c].ret.errors =
                IF MaxLengthCase(c) THEN DocumentedMaxLength(calls[c])
                ELSE DocumentedMissing(calls[c])

---------------------------------------------------------------------------
(* C12 *)

\* The step is the call of validate() through handle h.
IsValidateCall(h) ==
    /\ Len(calls') = Len(calls) + 1
    /\ calls'[Len(calls')].op = "validate"
    /\ calls'[Len(calls')].h = h

\* `after` is `before` without the entry of key, every other entry as it was.
OnlyEntryRemoved(before, after, key) ==
    /\ DOMAIN after = (DOMAIN before) \ {key}
    /\ \A k \in DOMAIN after : after[k] = before[k]

RemovesOwnEntryAtCall ==
    /\ \A h \in HandleIds :
         IsValidateCall(h) =>
            IF fields[h].struct = "InputField"
            THEN /\ OnlyEntryRemoved(form_data, form_data', fields[h].field_name)
                 /\ files' = files
            ELSE /\ OnlyEntryRemoved(files, files', fields[h].field_name)
                 /\ form_data' = form_data
    /\ (\A h \in HandleIds : ~IsValidateCall(h)) =>
            /\ form_data' = form_data
            /\ files' = files

\* C12: the step that calls validate() removes the entry under the field's
\* name from the field's own map (form_data for a text field, files for a
\* file field) and changes nothing else in either map; no other step (the
\* async bodies, value(), clone) changes a map.
C12_RemovesOwnEntryAtCall == [][RemovesOwnEntryAtCall]_vars

\* A validate() has been called on an entry that was present, its body has
\* not run yet, and the entry is gone while the other entries are there.
C12_Witness ==
    \E c \in ValidateCalls :
        /\ calls[c].pc = "body"
        /\ IsSome(RawOf(calls[c]))
        /\ fields[calls[c].h].field_name \notin
               DOMAIN (IF calls[c].struct = "InputField" THEN form_data ELSE files)
        /\ fields[calls[c].h].field_name \in
               DOMAIN (IF calls[c].struct = "InputField" THEN files ELSE form_data)
        /\ OtherName \in DOMAIN form_data
        /\ OtherName \in DOMAIN files

---------------------------------------------------------------------------
(* C13 *)

\* What the body of validate() call `call` returns and stores when it runs
\* from its first statement to its last with no step of another call in
\* between (the field validated alone).
SoloInput(call) ==
    LET errors == InputErrors(AtCall(call))
        form_values == InputFormValues(AtCall(call))
        value_t == FromAny_from_vec(call.T, IF IsSome(form_values)
                                            THEN Unwrap(form_values) ELSE <<>>)
    IN IF Len(errors) > 0 THEN [ret |-> RetErr(errors), stored |-> None]
       ELSE IF IsSome(value_t)
            THEN [ret |-> RetOk, stored |-> Some(Box(call.T, Unwrap(value_t)))]
            ELSE [ret |-> RetPanic(UnwrapPanic), stored |-> None]

SoloFile(call) ==
    LET is_empty == IF IsSome(call.files) THEN Len(Unwrap(call.files)) = 0 ELSE TRUE
        conv == IF IsSome(call.files) THEN FileConverted(call)
                ELSE [write |-> None, errors |-> <<>>, ran |-> 0, verdict |-> None]
        next == FileAfterCheck(call.T, is_empty, conv.errors)
    IN IF next = "done"
       THEN [ret |-> RetErr(FileErrors(call.T, is_empty, conv.errors)),
             stored |-> conv.write]
       ELSE IF next = "lock2"
            THEN [ret |-> RetOk,
                  stored |-> Some(Box(call.T, Unwrap(ToOptionT_from_vec(call.T, <<>>))))]
            ELSE [ret |-> RetOk, stored |-> conv.write]

SoloOutcome(call) ==
    IF call.struct = "InputField" THEN SoloInput(call) ELSE SoloFile(call)

\* The validate() calls made through handle h.
ValidatesOf(h) == {c \in ValidateCalls : calls[c].h = h}

\* C13: two fields with distinct names, their validate() bodies interleaved
\* in any way.  No validate() takes the other field's entry (the second
\* field finds its entry whenever the first field was validated before it);
\* each finished validate() returned and stored what it returns and stores
\* when run alone on the entry it removed; and the slot of a field validated
\* once and not yet read holds what that validate() stored.
C13_IndependentFields ==
    /\ \A h \in HandleIds :
         (ValidatesOf(h) = {} /\ fields[h].field_name = OtherName) =>
            OtherName \in DOMAIN (IF fields[h].struct = "InputField"
                                  THEN form_data ELSE files)
    /\ \A c \in ValidateCalls :
         (fields[calls[c].h].field_name = OtherName
             /\ \A b \in ValidatesOf(calls[c].h) : b >= c) => IsSome(RawOf(calls[c]))
    /\ \A c \in ValidateCalls :
         Done(c) =>
            /\ calls[c].ret = SoloOutcome(calls[c]).ret
            /\ calls[c].stored = SoloOutcome(calls[c]).stored
            /\ (ValidatesOf(calls[c].h) = {c} /\ SlotUntaken(calls[c].result)) =>
                   results[calls[c].result] =
                       IF IsSome(calls[c].stored) THEN calls[c].stored
                       ELSE new_result(fields[calls[c].h])

\* The first field's validate() is suspended at an await while the second
\* field's validate(), called after it, has run to its Ok.
C13_Witness ==
    \E c1, c2 \in ValidateCalls :
        /\ c1 < c2
        /\ calls[c1].h = 1 /\ calls[c2].h = 2
        /\ calls[c1].pc \in {"lock", "lock2", "store"}
        /\ Done(c2) /\ calls[c2].ret = RetOk /\ IsSome(calls[c2].stored)

---------------------------------------------------------------------------
(* C14 *)

\* C14: for a text field (here without a formatter), the flag is never true
\* while no validate() has written the slot, and a value() call, the only
\* one past the flag check, ends in the not-validated failure or returns a
\* value that a validate() stored, taken after that write.
C14_ValueNeverSeesPreValidation ==
    (fields[1].struct = "InputField" /\ ~IsSome(fields[1].error_handler)) =>
        /\ \A cell \in 1..Len(flags) : flags[cell] => WritesSoFar(cell) > 0
        /\ \A v \in ValueCalls :
             (Done(v) /\ OnlyReader(v)) =>
                \/ NotValidatedFailure(v)
                \/ /\ Returned(v)
                   /\ calls[v].writes_seen > 0
                   /\ \E c \in ValidateCalls :
                          calls[c].stored = Some(calls[v].ret.value)

---------------------------------------------------------------------------
(* C15 *)

ValidatorAccepted(c) ==
    /\ calls[c].struct = "FileField"
    /\ IsSome(calls[c].verdict)
    /\ Unwrap(calls[c].verdict).tag = "Ok"

\* C15: when validate() of a file field returns Ok after its secondary
\* validator ran and accepted, what it left in the slot is the validator's
\* output; the value() that follows returns it.
C15_ValidatorOutputStored ==
    \A c \in ValidateCalls :
        (Done(c) /\ calls[c].ret = RetOk /\ ValidatorAccepted(c)) =>
            /\ calls[c].stored = Some(Box(calls[c].T, Unwrap(calls[c].verdict).t))
            /\ \A v \in ValueCalls :
                   ReadFollowing(c, v) =>
                       calls[v].ret =
                           RetValue(Box(calls[c].T, Unwrap(calls[c].verdict).t))

---------------------------------------------------------------------------
(* C16 *)

\* C16: the secondary validator of a file field runs at most once per
\* validate(), and not at all when no descriptor was present for the
\* field's name (entry absent, or present with an empty list).
C16_ValidatorNeedsDescriptor ==
    \A c \in ValidateCalls :
        calls[c].struct = "FileField" =>
            /\ calls[c].validator_runs <= 1
            /\ NoRawInput(calls[c]) => calls[c].validator_runs = 0

---------------------------------------------------------------------------
(* C17 *)

\* The call record of a validate() on a field configured as `call` found
\* its field, with no entry for the field's name.
OnAbsentInput(call) ==
    IF call.struct = "InputField" THEN [call EXCEPT !.removed = None]
    ELSE [call EXCEPT !.files = None]

\* c1 is the first validate() through its handle and c2 a later one.
SecondValidate(c1, c2) ==
    /\ c1 < c2
    /\ calls[c1].h = calls[c2].h
    /\ \A b \in ValidatesOf(calls[c1].h) : b >= c1

\* C17: a later validate() through the handle a first validate() went
\* through returns what a field configured as that handle was at the first
\* call returns for absent input.
C17_SecondValidateIsAbsentInput ==
    \A c1, c2 \in ValidateCalls :
        (SecondValidate(c1, c2) /\ Done(c2)) =>
            calls[c2].ret = SoloOutcome(OnAbsentInput(calls[c1])).ret

---------------------------------------------------------------------------
(* C18 *)

\* A text field with a max length, validated on at least one raw value.
LengthCheckedCase(c) ==
    /\ calls[c].struct = "InputField"
    /\ IsSome(calls[c].max_length)
    /\ HasRawInput(calls[c])

\* The first raw value as a value of shape T.
FirstRawAs(T, call) ==
    Box(T, IF T = TString THEN FirstRaw(call) ELSE Some(FirstRaw(call)))

\* C18: for a text field with max length N and raw values v1..vk, k >= 1,
\* validate() returns Err (the max-length error) exactly when v1 is longer
\* than N, whatever v2..vk are, and when it returns Ok it stored v1.
C18_LengthOfFirstValueOnly ==
    \A c \in ValidateCalls :
        (Done(c) /\ LengthCheckedCase(c)) =>
            /\ calls[c].ret.tag = "Err"
                   <=> Len(FirstRaw(calls[c])) > Unwrap(calls[c].max_length)
            /\ calls[c].ret = RetOk =>
                   calls[c].stored = Some(FirstRawAs(calls[c].T, calls[c]))

---------------------------------------------------------------------------
(* C19 *)

\* The max-length messages a text field can produce: the default text, and
\* what its formatter returns for a max-length failure of a value.
MaxLengthMessagesOf(call) ==
    IF ~IsSome(call.max_length) THEN {}
    ELSE {MaxLengthMessage(Unwrap(call.max_length))}
         \cup (IF ~IsSome(call.error_handler) THEN {}
               ELSE UNION {
                   LET out == error_handler_call(
                                  Unwrap(call.error_handler),
                                  MaximumLengthExceed(v, call.field_name,
                                                      Unwrap(call.max_length)),
                                  <<MaxLengthMessage(Unwrap(call.max_length))>>)
                   IN {out[i] : i \in 1..Len(out)}
                   : v \in TextValues \cup {DefaultChoice}})

MissingMessagesOf(call) ==
    {MissingMessages(call)[i] : i \in 1..Len(MissingMessages(call))}

ErrorsOf(c) == {calls[c].ret.errors[i] : i \in 1..Len(calls[c].ret.errors)}

\* C19: a text field validated without a raw value returns no max-length
\* message; no returned error list holds both a max-length and a
\* missing-field message; and a String field with a default, validated
\* without a raw value, returns Ok and stores the default, whatever the
\* default's length and the configured max length.
C19_NoLengthCheckWithoutInput ==
    \A c \in ValidateCalls :
        (Done(c) /\ calls[c].struct = "InputField") =>
            /\ (NoRawInput(calls[c]) /\ calls[c].ret.tag = "Err") =>
                   ErrorsOf(c) \cap MaxLengthMessagesOf(calls[c]) = {}
            /\ calls[c].ret.tag = "Err" =>
                   \/ ErrorsOf(c) \cap MaxLengthMessagesOf(calls[c]) = {}
                   \/ ErrorsOf(c) \cap MissingMessagesOf(calls[c]) = {}
            /\ (NoRawInput(calls[c]) /\ DefaultCase(c)) =>
                   /\ calls[c].ret = RetOk
                   /\ calls[c].stored =
                          Some(Box(TString, Unwrap(calls[c].default_value)))

\* A default longer than the configured max length was stored by a
\* validate() without raw input.
C19_Witness ==
    \E c \in ValidateCalls :
        /\ Done(c) /\ DefaultCase(c) /\ NoRawInput(calls[c])
        /\ IsSome(calls[c].max_length)
        /\ Len(Unwrap(calls[c].default_value)) > Unwrap(calls[c].max_length)
        /\ calls[c].ret = RetOk
        /\ results[calls[c].result] =
               Some(Box(TString, Unwrap(calls[c].default_value)))

---------------------------------------------------------------------------
(* C20 *)

\* C20: a validate() that returned Err made no write to the slot, and as
\* long as every validate() made has returned Err the flag is false and the
\* slot is as new() left it: a validate() that returns Err changes neither.
C20_NoPartialSuccess ==
    /\ \A c \in ValidateCalls :
         (Done(c) /\ calls[c].ret.tag = "Err") =>
            /\ calls[c].writes = 0
            /\ calls[c].stored = None
    /\ (\A c \in ValidateCalls : Done(c) /\ calls[c].ret.tag = "Err") =>
            /\ \A cell \in 1..Len(flags) : ~flags[cell]
            /\ \A h \in HandleIds :
                   results[fields[h].result] = new_result(fields[h])

\* A validate() on raw input (a value too long, a file the validator
\* rejected) returned Err, the flag false and the slot as new() left it.
C20_Witness ==
    \E c \in ValidateCalls :
        /\ Done(c) /\ calls[c].ret.tag = "Err"
        /\ HasRawInput(calls[c])
        /\ ~flags[calls[c].validated]
        /\ results[calls[c].result] = new_result(fields[calls[c].h])

---------------------------------------------------------------------------
(* C21 *)

\* The slot mutex made explicit: a call parks at a lock().await, holds the
\* guard through the block that follows, and drops it where the guard's
\* scope ends.  The position of a call tells which of the three it is at.

\* The guard of the first acquisition kept until validate() returns instead
\* of being dropped with the block that declares it.
HoldsLock_until_return(call) ==
    \/ call.pc \in {"locked", "locked2"}
    \/ /\ call.op = "validate" /\ call.struct = "FileField"
       /\ IsSome(call.files)
       /\ call.pc \in {"lock2", "store"}

\* The call holds a guard of the slot mutex: result_lock (text validate),
\* result of the first block or of the second (file validate), result_ref
\* (value), each live to the end of its block and no further.
HoldsLock(call) == call.pc \in {"locked", "locked2"}

\* The call is parked at a lock().await of the slot mutex.
AtLock(call) ==
    \/ call.pc \in {"lock", "lock2"}
    \/ /\ call.op = "validate" /\ call.struct = "FileField"
       /\ call.pc = "body" /\ IsSome(call.files)

\* Mutex::lock().await resolves once no guard of that mutex is live.
Lock(c) ==
    /\ AtLock(calls[c])
    /\ \A d \in CallIds :
           calls[d].result = calls[c].result => ~HoldsLock(calls[d])
    /\ calls' = [calls EXCEPT
                    ![c].pc = IF calls[c].pc = "lock2" THEN "locked2"
                              ELSE "locked"]
    /\ UNCHANGED <<form_data, files, fields, results, flags>>

\* Text validate(): the block under result_lock.
InputLocked(c) ==
    /\ calls[c].op = "validate" /\ calls[c].struct = "InputField"
    /\ calls[c].pc = "locked"
    /\ InputWriteBlock(c)

\* File validate(), entry present: the block under the first guard and the
\* checks that follow it.
FileLocked(c) ==
    /\ calls[c].op = "validate" /\ calls[c].struct = "FileField"
    /\ calls[c].pc = "locked"
    /\ FileBodyBlock(c)

\* File validate(), no entry: no lock is taken before the checks.
FileNoEntry(c) ==
    /\ calls[c].op = "validate" /\ calls[c].struct = "FileField"
    /\ calls[c].pc = "body" /\ ~IsSome(calls[c].files)
    /\ FileBodyBlock(c)

\* File validate(): the write under the second guard.
FileLocked2(c) ==
    /\ calls[c].op = "validate" /\ calls[c].struct = "FileField"
    /\ calls[c].pc = "locked2"
    /\ FileWriteEmptyBlock(c)

\* value(): the block under result_ref.
ValueLocked(c) ==
    /\ calls[c].op = "value"
    /\ calls[c].pc = "locked"
    /\ ValueTakeBlock(c)

\* One step of the future of call c.
Poll(c) ==
    /\ c \in CallIds
    /\ \/ InputBody(c)
       \/ Lock(c)
       \/ InputLocked(c)
       \/ FileNoEntry(c)
       \/ FileLocked(c)
       \/ FileLocked2(c)
       \/ FileStore(c)
       \/ ValueLocked(c)

\* The field and a duplicate of it, made before the first call: two handles
\* of one slot and one flag.  The configurations are those that decide
\* where a call locks: the required and the optional shape, the entry
\* absent, empty or holding one value; no default, no formatter, no max
\* length, no secondary validator.
Duplicates(self) == <<self, clone(self)>>

InitLocks ==
    /\ \/ \E T \in {TString, TOptionString},
             own \in Options(Vecs({"Jo"}, 1)) :
              /\ fields = Duplicates(InputField_new(T, InputFieldName, None,
                                                    None, None, 1))
              /\ form_data = RawMap(InputFieldName, own, <<"Jo">>)
              /\ files = RawMap(InputFieldName, Some(<<CoreFile1>>), <<CoreFile2>>)
       \/ \E T \in {TUploadedFile, TOptionUploadedFile},
             own \in Options(Vecs({CoreFile1}, 1)) :
              /\ fields = Duplicates(FileField_new(T, FileFieldName, None, 1))
              /\ form_data = RawMap(FileFieldName, Some(<<"Jo">>), <<"Johnny">>)
              /\ files = RawMap(FileFieldName, own, <<CoreFile2>>)
    /\ results = <<new_result(fields[1])>>
    /\ flags = <<FALSE>>
    /\ calls = <<>>

NextLocks ==
    \/ \E h \in HandleIds : InputValidate(h)
    \/ \E c \in CallIds : InputBody(c)
    \/ \E h \in HandleIds : FileValidate(h)
    \/ \E h \in HandleIds : Value(h)
    \/ \E c \in CallIds : Lock(c)
    \/ \E c \in CallIds : InputLocked(c)
    \/ \E c \in CallIds : FileNoEntry(c)
    \/ \E c \in CallIds : FileLocked(c)
    \/ \E c \in CallIds : FileLocked2(c)
    \/ \E c \in CallIds : FileStore(c)
    \/ \E c \in CallIds : ValueLocked(c)

\* Fair scheduling: the future of a started call that can make a step is
\* polled again (the caller awaits it on the runtime).  Starting a call is
\* the caller's choice and is under no obligation.
SpecLocks ==
    InitLocks /\ [][NextLocks]_vars
        /\ \A c \in 1..MaxCalls : WF_vars(Poll(c))

\* The same caller without the obligation to poll.
SpecLocksUnfair == InitLocks /\ [][NextLocks]_vars

\* At most one guard of a slot mutex is live.
MutualExclusion ==
    \A c, d \in CallIds :
        (/\ HoldsLock(calls[c]) /\ HoldsLock(calls[d])
         /\ calls[c].result = calls[d].result) => c = d

\* No call parks at the mutex whose guard it holds, and a call that has
\* finished holds none.
NoSelfAcquire ==
    \A c \in CallIds :
        /\ AtLock(calls[c]) => ~HoldsLock(calls[c])
        /\ Done(c) => ~HoldsLock(calls[c])

\* C21: under fair scheduling every started validate() and value() call
\* eventually finishes (returns or panics) and holds no guard of the slot
\* mutex then; no call parks at the slot mutex while it holds a guard of
\* it; at most one guard is live; so no interleaving of calls on the
\* duplicates of one field leaves a call parked for ever.
C21_EveryCallFinishes ==
    /\ [](MutualExclusion /\ NoSelfAcquire)
    /\ \A c \in 1..MaxCalls :
          (c \in CallIds) ~> (c \in CallIds /\ Done(c) /\ ~HoldsLock(calls[c]))

\* Contention on the duplicates of one field: a file validate() holds its
\* second guard while a call made through another handle is parked at the
\* same mutex and a third call on that slot has finished.
C21_Witness ==
    \E c, d, e \in CallIds :
        /\ calls[c].pc = "locked2"
        /\ AtLock(calls[d]) /\ calls[d].h # calls[c].h
        /\ calls[d].result = calls[c].result
        /\ Done(e) /\ calls[e].result = calls[c].result

---------------------------------------------------------------------------
(* C22 *)

\* The validate() call c has executed its validated.store(true).
FlagStoredBy(c) ==
    /\ calls[c].op = "validate"
    /\ IF calls[c].struct = "InputField"
       THEN \/ calls[c].pc = "lock"
            \/ Done(c) /\ calls[c].ret.tag \in {"Ok", "Panic"}
       ELSE Done(c) /\ calls[c].ret = RetOk

\* C22: the flag is false until a validate() stores it, is true from then
\* on whatever is called afterwards, and is true only through a validate()
\* that succeeds (one that stored it is still running or has returned Ok);
\* and after a first validate() that returned Ok with a stored value and a
\* second that returned Err, the value() that follows returns the value the
\* first stored.
C22_FlagMonotone ==
    /\ \A cell \in 1..Len(flags) :
         flags[cell] <=>
            \E c \in ValidateCalls : calls[c].validated = cell /\ FlagStoredBy(c)
    /\ \A cell \in 1..Len(flags) :
         flags[cell] =>
            \E c \in ValidateCalls :
                /\ calls[c].validated = cell /\ FlagStoredBy(c)
                /\ Done(c) => calls[c].ret = RetOk
    /\ \A c1, c2 \in ValidateCalls, v \in ValueCalls :
         (/\ ValidateCalls = {c1, c2} /\ c1 < c2
          /\ Done(c1) /\ calls[c1].ret = RetOk /\ IsSome(calls[c1].stored)
          /\ Done(c2) /\ calls[c2].ret.tag = "Err"
          /\ Done(v) /\ calls[v].ok_before /\ OnlyReader(v)) =>
             calls[v].ret = RetValue(Unwrap(calls[c1].stored))

====
